---- MODULE Spec2Model ----
(***************************************************************************)
(* Model of update_psbt_input (src/miniscript/plan.rs): population of a    *)
(* PSBT Input from a spending Plan (descriptor + template of placeholders).*)
(*                                                                         *)
(* Encoding conventions:                                                   *)
(*   Option<T>      : << >> is None, <<v>> is Some(v)                      *)
(*   BTreeMap<K, V> : a function whose DOMAIN is the set of present keys   *)
(*   Vec<T>         : a sequence                                           *)
(*   ScriptBuf      : <<tag, n>>, tag naming how the script was built      *)
(***************************************************************************)
EXTENDS Integers, Sequences, FiniteSets, TLC

VARIABLES input, pre, plan, status, calls

vars == <<input, pre, plan, status, calls>>

\* ---------------------------------------------------------------------------
\* Bounds
\* ---------------------------------------------------------------------------

\* Longest template of a plan under Spec.
MaxLen == 3

\* Longest template of a plan under SpecSeq.
MaxSeqLen == 1

\* Longest sequence of calls on one Input under SpecSeq.
MaxCalls == 3

\* ---------------------------------------------------------------------------
\* Option and map helpers
\* ---------------------------------------------------------------------------

None == << >>

Some(v) == <<v>>

EmptyMap == [k \in {} |-> 0]

\* BTreeMap::insert: the value of an existing key is overwritten.
MapInsert(m, k, v) == [x \in (DOMAIN m) \cup {k} |-> IF x = k THEN v ELSE m[x]]

\* ---------------------------------------------------------------------------
\* Keys (DefiniteDescriptorKey) and their accessors
\*   K1 : a multi-path key, two derivation paths
\*   K2 : a single-path key with another public key
\*   K3 : the public key of K1 declared with another origin
\* ---------------------------------------------------------------------------

Keys == {"K1", "K2", "K3"}

\* pk.to_public_key().inner : <<parity, x coordinate>>
to_public_key(pk) ==
    CASE pk = "K1" -> <<2, 11>>
      [] pk = "K2" -> <<3, 12>>
      [] pk = "K3" -> <<2, 11>>

\* pk.to_x_only_pubkey() : the x coordinate, the parity is dropped
to_x_only_pubkey(pk) == to_public_key(pk)[2]

master_fingerprint(pk) ==
    CASE pk = "K1" -> 101
      [] pk = "K2" -> 102
      [] pk = "K3" -> 103

\* pk.full_derivation_paths() : Vec<DerivationPath>, in the key's order
full_derivation_paths(pk) ==
    CASE pk = "K1" -> <<21, 22>>
      [] pk = "K2" -> <<21>>
      [] pk = "K3" -> <<23>>

\* ---------------------------------------------------------------------------
\* Scripts
\* ---------------------------------------------------------------------------

\* The script a miniscript n encodes to.
MsScript(n) == <<"ms", n>>

\* ScriptBuf::to_p2wsh : the P2WSH output script committing to s
to_p2wsh(s) == <<"p2wsh", s[2]>>

\* The P2WPKH output script of a key.
P2wpkhScript(pk) == <<"p2wpkh", to_x_only_pubkey(pk)>>

LeafVersionTapScript == "TapScript"

\* ---------------------------------------------------------------------------
\* Descriptors
\* ---------------------------------------------------------------------------

Desc(kind, inner, ms, key, root) ==
    [kind |-> kind, inner |-> inner, ms |-> ms, key |-> key, root |-> root]

Bare(n) == Desc("Bare", "-", n, "-", None)

Pkh(k) == Desc("Pkh", "-", 0, k, None)

Wpkh(k) == Desc("Wpkh", "-", 0, k, None)

ShWsh(n) == Desc("Sh", "Wsh", n, "-", None)

ShWpkh(k) == Desc("Sh", "Wpkh", 0, k, None)

ShSortedMulti(n) == Desc("Sh", "SortedMulti", n, "-", None)

ShMs(n) == Desc("Sh", "Ms", n, "-", None)

Wsh(n) == Desc("Wsh", "-", n, "-", None)

\* Tr(internal key, merkle root of the script tree: None for a key-only Tr)
Tr(k, root) == Desc("Tr", "-", 0, k, root)

IsTr(d) == d.kind = "Tr"

\* tr.spend_info().merkle_root()
merkle_root(d) == d.root

\* wsh.inner_script() : the witness script of a Wsh
WshInnerScript(d) == MsScript(d.ms)

\* sh.inner_script() : the script the Sh commits to
ShInnerScript(d) ==
    CASE d.inner = "Wsh" -> to_p2wsh(MsScript(d.ms))
      [] d.inner = "Wpkh" -> P2wpkhScript(d.key)
      [] OTHER -> MsScript(d.ms)

TrDescriptors == {Tr("K1", None), Tr("K2", Some(7))}

LegacyDescriptors ==
    {Bare(1), Pkh("K1"), Wpkh("K2"), ShWsh(1), ShWsh(2), ShWpkh("K1"),
     ShSortedMulti(1), ShMs(2), Wsh(1), Wsh(2)}

\* ---------------------------------------------------------------------------
\* Placeholders
\* ---------------------------------------------------------------------------

Item(tag, pk, sig, arg) == [tag |-> tag, pk |-> pk, sig |-> sig, arg |-> arg]

TapScript(s) == Item("TapScript", "-", "-", s)

TapControlBlock(cb) == Item("TapControlBlock", "-", "-", cb)

SchnorrSigPkKeySpend(pk) == Item("SchnorrSigPk", pk, "KeySpend", 0)

SchnorrSigPkScriptSpend(pk, lh) == Item("SchnorrSigPk", pk, "ScriptSpend", lh)

SchnorrSigPkHash(pk, lh) == Item("SchnorrSigPkHash", pk, "-", lh)

EcdsaSigPk(pk) == Item("EcdsaSigPk", pk, "-", 0)

\* One of the variants neither branch looks at.
PushZero == Item("PushZero", "-", "-", 0)

\* ---------------------------------------------------------------------------
\* Input
\* ---------------------------------------------------------------------------

EmptyInput ==
    [tap_merkle_root |-> None,
     tap_internal_key |-> None,
     tap_key_origins |-> EmptyMap,
     tap_scripts |-> EmptyMap,
     bip32_derivation |-> EmptyMap,
     witness_script |-> None,
     redeem_script |-> None]

\* ---------------------------------------------------------------------------
\* Taproot branch: the fold over the template
\* ---------------------------------------------------------------------------

\* TrDescriptorData::default(); panicked records that unreachable!() was hit.
TrDescriptorDataDefault ==
    [tap_script |-> None,
     control_block |-> None,
     spend_type |-> None,
     key_origins |-> EmptyMap,
     panicked |-> FALSE]

\* for path in pk.full_derivation_paths() { key_origins.insert(raw_pk, ..) }
RECURSIVE InsertKeyOrigins(_, _, _, _)
InsertKeyOrigins(m, pk, paths, i) ==
    IF i > Len(paths) THEN m
    ELSE InsertKeyOrigins(
             MapInsert(m, to_x_only_pubkey(pk), <<master_fingerprint(pk), paths[i]>>),
             pk, paths, i + 1)

\* The match on (&data.spend_type, sig_type) of a SchnorrSigPk.
SpendTypeMatch(data, item) ==
    LET raw_pk == to_x_only_pubkey(item.pk) IN
    CASE data.spend_type = None /\ item.sig = "KeySpend" ->
             [data EXCEPT !.spend_type = Some(<<"KeySpend", raw_pk>>)]
      [] data.spend_type = None /\ item.sig = "ScriptSpend" ->
             [data EXCEPT !.spend_type = Some(<<"ScriptSpend", item.arg>>)]
      [] data.spend_type # None /\ data.spend_type[1][1] = "KeySpend"
            /\ item.sig = "ScriptSpend" ->
             [data EXCEPT !.panicked = TRUE]
      [] data.spend_type # None /\ data.spend_type[1][1] = "ScriptSpend"
            /\ item.sig = "KeySpend" ->
             [data EXCEPT !.panicked = TRUE]
      [] OTHER -> data

\* Mutant of SchnorrSigPkArm: the key-origin loop sits inside the two arms
\* that set the spend type, so only the first signature's key is recorded.
SchnorrSigPkArmOriginsOnFirst(data, item) ==
    LET d == SpendTypeMatch(data, item) IN
    IF d.panicked \/ data.spend_type # None THEN d
    ELSE [d EXCEPT !.key_origins =
              InsertKeyOrigins(d.key_origins, item.pk,
                               full_derivation_paths(item.pk), 1)]

\* The arm of a SchnorrSigPk: the match, then the key-origin loop.
SchnorrSigPkArm(data, item) ==
    LET d == SpendTypeMatch(data, item) IN
    IF d.panicked THEN d
    ELSE [d EXCEPT !.key_origins =
              InsertKeyOrigins(d.key_origins, item.pk,
                               full_derivation_paths(item.pk), 1)]

\* The arm of a SchnorrSigPkHash.
SchnorrSigPkHashArm(data, item) ==
    [data EXCEPT !.spend_type = Some(<<"ScriptSpend", item.arg>>)]

\* Mutant of FoldStep: the first TapScript of the template is kept.
FoldStepFirstScriptWins(data, item) ==
    CASE item.tag = "TapScript" ->
             IF data.tap_script = None
             THEN [data EXCEPT !.tap_script = Some(item.arg)]
             ELSE data
      [] item.tag = "TapControlBlock" -> [data EXCEPT !.control_block = Some(item.arg)]
      [] item.tag = "SchnorrSigPk" -> SchnorrSigPkArm(data, item)
      [] item.tag = "SchnorrSigPkHash" -> SchnorrSigPkHashArm(data, item)
      [] OTHER -> data

\* The closure of the fold: one template item.
FoldStep(data, item) ==
    CASE item.tag = "TapScript" -> [data EXCEPT !.tap_script = Some(item.arg)]
      [] item.tag = "TapControlBlock" -> [data EXCEPT !.control_block = Some(item.arg)]
      [] item.tag = "SchnorrSigPk" -> SchnorrSigPkArm(data, item)
      [] item.tag = "SchnorrSigPkHash" -> SchnorrSigPkHashArm(data, item)
      [] OTHER -> data

\* plan.template.iter().fold(..): a panic ends the fold.
RECURSIVE Fold(_, _, _)
Fold(data, template, i) ==
    IF i > Len(template) \/ data.panicked THEN data
    ELSE Fold(FoldStep(data, template[i]), template, i + 1)

\* ---------------------------------------------------------------------------
\* Taproot branch: writing the Input
\* ---------------------------------------------------------------------------

\* input.tap_merkle_root = spend_info.merkle_root()
SetMerkleRoot(d, in) == [in EXCEPT !.tap_merkle_root = merkle_root(d)]

\* Mutant of WriteInternalKey: the key is written for any spend type.
WriteInternalKeyAnySpend(data, in) ==
    IF data.spend_type # None
    THEN [in EXCEPT !.tap_internal_key = Some(data.spend_type[1][2])]
    ELSE in

\* let leaf_hash = match data.spend_type { .. } : the Input after the match
WriteInternalKey(data, in) ==
    IF data.spend_type # None /\ data.spend_type[1][1] = "KeySpend"
    THEN [in EXCEPT !.tap_internal_key = Some(data.spend_type[1][2])]
    ELSE in

\* let leaf_hash = match data.spend_type { .. } : the value of the match
LeafHashOf(data) ==
    IF data.spend_type # None /\ data.spend_type[1][1] = "ScriptSpend"
    THEN Some(data.spend_type[1][2])
    ELSE None

SeqContains(s, v) == \E i \in 1..Len(s) : s[i] = v

\* Mutant of AndModify: the leaf hash is pushed without looking for it.
AndModifyAlwaysPush(entry, leaf_hash) ==
    IF leaf_hash # None
    THEN <<Append(entry[1], leaf_hash[1]), entry[2]>>
    ELSE entry

\* The and_modify closure on an entry (leaf_hashes, key_source).
AndModify(entry, leaf_hash) ==
    IF leaf_hash # None /\ ~SeqContains(entry[1], leaf_hash[1])
    THEN <<Append(entry[1], leaf_hash[1]), entry[2]>>
    ELSE entry

\* Mutant of UpsertKeyOrigin: .entry(pk).or_insert_with(..) and then a push of
\* the leaf hash on whatever entry came back.
UpsertKeyOriginPushAfterInsert(origins, pk, key_source, leaf_hash) ==
    LET entry == IF pk \in DOMAIN origins THEN origins[pk] ELSE <<<< >>, key_source>>
    IN MapInsert(origins, pk,
                 IF leaf_hash # None
                 THEN <<Append(entry[1], leaf_hash[1]), entry[2]>>
                 ELSE entry)

\* .entry(pk).and_modify(..).or_insert_with(|| (vec![], key_source))
UpsertKeyOrigin(origins, pk, key_source, leaf_hash) ==
    IF pk \in DOMAIN origins
    THEN [origins EXCEPT ![pk] = AndModify(origins[pk], leaf_hash)]
    ELSE MapInsert(origins, pk, <<<< >>, key_source>>)

\* for (pk, key_source) in data.key_origins { .. }: the keys are distinct, so
\* the entries are updated independently of the iteration order.
MergeKeyOrigins(origins, key_origins, leaf_hash) ==
    [pk \in (DOMAIN origins) \cup (DOMAIN key_origins) |->
        IF pk \in DOMAIN key_origins
        THEN UpsertKeyOrigin(origins, pk, key_origins[pk], leaf_hash)[pk]
        ELSE origins[pk]]

\* if let (Some(tap_script), Some(control_block)) = .. { tap_scripts.insert(..) }
WriteTapScripts(data, in) ==
    IF data.tap_script # None /\ data.control_block # None
    THEN [in EXCEPT !.tap_scripts =
              MapInsert(in.tap_scripts, data.control_block[1],
                        <<data.tap_script[1], LeafVersionTapScript>>)]
    ELSE in

\* The Taproot branch after the fold.
WriteTaproot(data, in) ==
    LET a == WriteInternalKey(data, in)
        b == [a EXCEPT !.tap_key_origins =
                  MergeKeyOrigins(a.tap_key_origins, data.key_origins, LeafHashOf(data))]
    IN WriteTapScripts(data, b)

\* ---------------------------------------------------------------------------
\* Legacy / segwit branch
\* ---------------------------------------------------------------------------

\* for derivation_path in pk.full_derivation_paths() { bip32_derivation.insert(..) }
RECURSIVE InsertBip32(_, _, _, _)
InsertBip32(m, pk, paths, i) ==
    IF i > Len(paths) THEN m
    ELSE InsertBip32(
             MapInsert(m, to_public_key(pk), <<master_fingerprint(pk), paths[i]>>),
             pk, paths, i + 1)

\* for item in &plan.template { if let Placeholder::EcdsaSigPk(pk) = item { .. } }
RECURSIVE Bip32Loop(_, _, _)
Bip32Loop(m, template, i) ==
    IF i > Len(template) THEN m
    ELSE Bip32Loop(
             IF template[i].tag = "EcdsaSigPk"
             THEN InsertBip32(m, template[i].pk, full_derivation_paths(template[i].pk), 1)
             ELSE m,
             template, i + 1)

\* Mutant of WriteScripts: Sh(Wpkh) fills witness_script, not redeem_script.
WriteScriptsWpkhAsWitness(d, in) ==
    CASE d.kind \in {"Bare", "Pkh", "Wpkh"} -> in
      [] d.kind = "Sh" /\ d.inner = "Wsh" ->
             [in EXCEPT !.witness_script = Some(WshInnerScript(d)),
                        !.redeem_script = Some(to_p2wsh(WshInnerScript(d)))]
      [] d.kind = "Sh" /\ d.inner = "Wpkh" ->
             [in EXCEPT !.witness_script = Some(ShInnerScript(d))]
      [] d.kind = "Sh" /\ d.inner \in {"SortedMulti", "Ms"} ->
             [in EXCEPT !.redeem_script = Some(ShInnerScript(d))]
      [] d.kind = "Wsh" ->
             [in EXCEPT !.witness_script = Some(WshInnerScript(d))]

\* match &plan.descriptor { .. } of the non-Taproot branch
WriteScripts(d, in) ==
    CASE d.kind \in {"Bare", "Pkh", "Wpkh"} -> in
      [] d.kind = "Sh" /\ d.inner = "Wsh" ->
             [in EXCEPT !.witness_script = Some(WshInnerScript(d)),
                        !.redeem_script = Some(to_p2wsh(WshInnerScript(d)))]
      [] d.kind = "Sh" /\ d.inner = "Wpkh" ->
             [in EXCEPT !.redeem_script = Some(ShInnerScript(d))]
      [] d.kind = "Sh" /\ d.inner \in {"SortedMulti", "Ms"} ->
             [in EXCEPT !.redeem_script = Some(ShInnerScript(d))]
      [] d.kind = "Wsh" ->
             [in EXCEPT !.witness_script = Some(WshInnerScript(d))]

\* The non-Taproot branch.
WriteLegacy(p, in) ==
    WriteScripts(p.descriptor,
                 [in EXCEPT !.bip32_derivation =
                      Bip32Loop(in.bip32_derivation, p.template, 1)])

\* ---------------------------------------------------------------------------
\* update_psbt_input as a function: the Input it leaves and whether it panicked
\* ---------------------------------------------------------------------------

Outcome(in, panicked) == [input |-> in, panicked |-> panicked]

\* Mutant of Apply: the EcdsaSigPk loop runs ahead of the branch, for every
\* descriptor.
ApplyEcdsaInBothBranches(p, in) ==
    LET looped == [in EXCEPT !.bip32_derivation =
                       Bip32Loop(in.bip32_derivation, p.template, 1)]
    IN IF IsTr(p.descriptor)
       THEN LET rooted == SetMerkleRoot(p.descriptor, looped)
                data == Fold(TrDescriptorDataDefault, p.template, 1)
            IN IF data.panicked
               THEN Outcome(rooted, TRUE)
               ELSE Outcome(WriteTaproot(data, rooted), FALSE)
       ELSE Outcome(WriteLegacy(p, in), FALSE)

Apply(p, in) ==
    IF IsTr(p.descriptor)
    THEN LET rooted == SetMerkleRoot(p.descriptor, in)
             data == Fold(TrDescriptorDataDefault, p.template, 1)
         IN IF data.panicked
            THEN Outcome(rooted, TRUE)
            ELSE Outcome(WriteTaproot(data, rooted), FALSE)
    ELSE Outcome(WriteLegacy(p, in), FALSE)

\* ---------------------------------------------------------------------------
\* Plans and initial Inputs
\* ---------------------------------------------------------------------------

Plan(d, t) == [descriptor |-> d, template |-> t]

\* Template items of the plans of a Taproot descriptor.
TrItems ==
    {TapScript(1), TapScript(2), TapControlBlock(1), TapControlBlock(2),
     SchnorrSigPkKeySpend("K1"), SchnorrSigPkKeySpend("K2"),
     SchnorrSigPkScriptSpend("K1", 31), SchnorrSigPkScriptSpend("K2", 32),
     SchnorrSigPkScriptSpend("K3", 31),
     SchnorrSigPkHash("K1", 31), SchnorrSigPkHash("K2", 32),
     EcdsaSigPk("K1")}

\* Template items of the plans of the other descriptors.
LegacyItems ==
    {EcdsaSigPk("K1"), EcdsaSigPk("K2"), EcdsaSigPk("K3"), PushZero,
     SchnorrSigPkKeySpend("K1"), TapScript(1)}

SeqsUpTo(S, n) == UNION {[1..k -> S] : k \in 0..n}

PlansOfLen(n) ==
    {Plan(d, t) : d \in TrDescriptors, t \in SeqsUpTo(TrItems, n)}
    \cup {Plan(d, t) : d \in LegacyDescriptors, t \in SeqsUpTo(LegacyItems, n)}

Plans == PlansOfLen(MaxLen)

\* Template items of the plans applied in sequence to one Input.
SeqItems ==
    {TapScript(1), TapControlBlock(1),
     SchnorrSigPkKeySpend("K1"),
     SchnorrSigPkScriptSpend("K1", 31), SchnorrSigPkScriptSpend("K2", 32),
     SchnorrSigPkHash("K1", 32)}

SeqPlans == {Plan(d, t) : d \in TrDescriptors, t \in SeqsUpTo(SeqItems, MaxSeqLen)}

\* An Input a script-path plan was applied to twice, and one a Sh(Wsh) plan
\* was applied to.
ScriptPathPlan ==
    Plan(Tr("K2", Some(7)),
         <<TapScript(1), TapControlBlock(1), SchnorrSigPkScriptSpend("K1", 31)>>)

SegwitPlan == Plan(ShWsh(1), <<EcdsaSigPk("K3")>>)

InitInputs ==
    {EmptyInput,
     Apply(ScriptPathPlan, Apply(ScriptPathPlan, EmptyInput).input).input,
     Apply(SegwitPlan, EmptyInput).input}

\* ---------------------------------------------------------------------------
\* State machine
\* ---------------------------------------------------------------------------

NoPlan == Plan(Bare(1), << >>)

Init ==
    /\ input \in InitInputs
    /\ pre = input
    /\ plan = NoPlan
    /\ status = "init"
    /\ calls = 0

\* One call update_psbt_input(&p, &mut input).
update_psbt_input(p) ==
    LET out == Apply(p, input) IN
    /\ status # "aborted"
    /\ pre' = input
    /\ plan' = p
    /\ input' = out.input
    /\ status' = IF out.panicked THEN "aborted" ELSE "done"
    /\ calls' = calls + 1

\* An Input is populated once per plan.
Next == calls < 1 /\ \E p \in Plans : update_psbt_input(p)

Spec == Init /\ [][Next]_vars

\* Several plans applied to the same Input, one after the other.
NextSeq == calls < MaxCalls /\ \E p \in SeqPlans : update_psbt_input(p)

SpecSeq == Init /\ [][NextSeq]_vars

\* ---------------------------------------------------------------------------
\* Vocabulary of the properties
\* ---------------------------------------------------------------------------

Template == plan.template

IsKeySpendSig(it) == it.tag = "SchnorrSigPk" /\ it.sig = "KeySpend"

IsScriptSpendSig(it) == it.tag = "SchnorrSigPk" /\ it.sig = "ScriptSpend"

IsPkHashSig(it) == it.tag = "SchnorrSigPkHash"

HasKeySpendSig(t) == \E i \in 1..Len(t) : IsKeySpendSig(t[i])

HasScriptSpendSig(t) == \E i \in 1..Len(t) : IsScriptSpendSig(t[i])

HasPkHashSig(t) == \E i \in 1..Len(t) : IsPkHashSig(t[i])

Positions(t, tag) == {i \in 1..Len(t) : t[i].tag = tag}

LastPosition(t, tag) ==
    CHOOSE i \in Positions(t, tag) : \A j \in Positions(t, tag) : j <= i

TrDone == status = "done" /\ IsTr(plan.descriptor)

LegacyDone == status = "done" /\ ~IsTr(plan.descriptor)

KeySet(in) == in.tap_internal_key # None

HasScripts(in) == DOMAIN in.tap_scripts # {}

NoDup(s) == \A i, j \in 1..Len(s) : i # j => s[i] # s[j]

\* ---------------------------------------------------------------------------
\* C1
\* ---------------------------------------------------------------------------

\* C1 as stated: after a completed call of a Taproot plan on an empty Input,
\* exactly one of "tap_internal_key is set" and "tap_scripts is non-empty"
\* holds.
C1_ExactlyOne ==
    TrDone /\ pre = EmptyInput => (KeySet(input) # HasScripts(input))

\* C1 (amended): after a completed call of a Taproot plan on an empty Input,
\* tap_internal_key is set exactly when the template has a key-spend
\* SchnorrSigPk and no SchnorrSigPkHash, and tap_scripts has an entry exactly
\* when the template has both a TapScript and a TapControlBlock; so exactly
\* one of the two holds exactly when exactly one of these two template
\* conditions holds.
C1_KeyOrScriptsByTemplate ==
    TrDone /\ pre = EmptyInput =>
        /\ KeySet(input) <=> (HasKeySpendSig(Template) /\ ~HasPkHashSig(Template))
        /\ HasScripts(input) <=>
               (Positions(Template, "TapScript") # {}
                /\ Positions(Template, "TapControlBlock") # {})

\* A key-spend plan applied to an empty Input: the key is set, no script is.
C1_Witness ==
    /\ TrDone
    /\ pre = EmptyInput
    /\ Template = <<SchnorrSigPkKeySpend("K1")>>
    /\ input.tap_internal_key = Some(11)
    /\ ~HasScripts(input)

\* ---------------------------------------------------------------------------
\* C2
\* ---------------------------------------------------------------------------

\* C2 as stated: a call of a Taproot plan whose template has both a key-spend
\* SchnorrSigPk and a script-spend SchnorrSigPk aborts, whatever the order and
\* whatever lies between them.
C2_MixedAlwaysAborts ==
    /\ status # "init"
    /\ IsTr(plan.descriptor)
    /\ HasKeySpendSig(Template)
    /\ HasScriptSpendSig(Template)
    => status = "aborted"

\* ---------------------------------------------------------------------------
\* C3
\* ---------------------------------------------------------------------------

\* C3: a call of a non-Taproot plan leaves tap_merkle_root, tap_internal_key,
\* tap_key_origins and tap_scripts as they were; a call of a Taproot plan
\* leaves bip32_derivation, witness_script and redeem_script as they were.
C3_NoCrossContamination ==
    status # "init" =>
        IF IsTr(plan.descriptor)
        THEN /\ input.bip32_derivation = pre.bip32_derivation
             /\ input.witness_script = pre.witness_script
             /\ input.redeem_script = pre.redeem_script
        ELSE /\ input.tap_merkle_root = pre.tap_merkle_root
             /\ input.tap_internal_key = pre.tap_internal_key
             /\ input.tap_key_origins = pre.tap_key_origins
             /\ input.tap_scripts = pre.tap_scripts

\* A Taproot plan with an EcdsaSigPk in its template populated an empty Input.
C3_Witness ==
    /\ TrDone
    /\ pre = EmptyInput
    /\ Positions(Template, "EcdsaSigPk") # {}
    /\ Positions(Template, "SchnorrSigPk") # {}
    /\ DOMAIN input.tap_key_origins # {}
    /\ DOMAIN input.bip32_derivation = {}

\* ---------------------------------------------------------------------------
\* C4
\* ---------------------------------------------------------------------------

\* The table of the descriptor variants: <<witness_script, redeem_script>>.
C4_Table(d) ==
    CASE d.kind \in {"Bare", "Pkh", "Wpkh"} -> <<None, None>>
      [] d.kind = "Sh" /\ d.inner = "Wsh" ->
             <<Some(MsScript(d.ms)), Some(<<"p2wsh", d.ms>>)>>
      [] d.kind = "Sh" /\ d.inner # "Wsh" -> <<None, Some(ShInnerScript(d))>>
      [] d.kind = "Wsh" -> <<Some(MsScript(d.ms)), None>>

\* C4: after a call of a non-Taproot plan on an Input with no witness_script
\* and no redeem_script, the two fields are those of the table for the
\* descriptor, whatever the template.
C4_DescriptorTable ==
    /\ LegacyDone
    /\ pre.witness_script = None
    /\ pre.redeem_script = None
    => <<input.witness_script, input.redeem_script>> = C4_Table(plan.descriptor)

\* A Sh(Wsh) plan with signature placeholders set both scripts.
C4_Witness ==
    /\ LegacyDone
    /\ plan.descriptor = ShWsh(2)
    /\ Positions(Template, "EcdsaSigPk") # {}
    /\ pre.witness_script = None
    /\ pre.redeem_script = None
    /\ input.witness_script = Some(<<"ms", 2>>)
    /\ input.redeem_script = Some(<<"p2wsh", 2>>)

\* ---------------------------------------------------------------------------
\* C5
\* ---------------------------------------------------------------------------

\* C5: whatever Taproot plans were applied to the Input, no tap_key_origins
\* entry holds a leaf hash twice; merging a leaf hash into an entry that
\* already holds it leaves the entry's list as it was.
C5_NoDuplicateLeafHash ==
    /\ \A k \in DOMAIN input.tap_key_origins : NoDup(input.tap_key_origins[k][1])
    /\ TrDone =>
          \A i \in Positions(Template, "SchnorrSigPk") :
              LET k == to_x_only_pubkey(Template[i].pk) IN
              /\ k \in DOMAIN pre.tap_key_origins
              /\ \E j \in 1..Len(pre.tap_key_origins[k][1]) :
                     Some(pre.tap_key_origins[k][1][j])
                         = LeafHashOf(Fold(TrDescriptorDataDefault, Template, 1))
              => input.tap_key_origins[k] = pre.tap_key_origins[k]

\* The third call on an empty Input merged leaf hash 31 into the entry of a
\* key that already held it: the list has one element.
C5_Witness ==
    /\ TrDone
    /\ calls = 3
    /\ Template = <<SchnorrSigPkScriptSpend("K1", 31)>>
    /\ 11 \in DOMAIN pre.tap_key_origins
    /\ pre.tap_key_origins[11][1] = <<31>>
    /\ input.tap_key_origins[11][1] = <<31>>

\* ---------------------------------------------------------------------------
\* C6
\* ---------------------------------------------------------------------------

\* C6 as stated: after a call of a non-Taproot plan, bip32_derivation records
\* (master fingerprint, P) under the public key of every EcdsaSigPk key, for
\* every derivation path P of that key.
C6_EveryPathRecorded ==
    LegacyDone =>
        \A i \in Positions(Template, "EcdsaSigPk") :
            LET pk == Template[i].pk
                paths == full_derivation_paths(pk)
            IN \A j \in 1..Len(paths) :
                   /\ to_public_key(pk) \in DOMAIN input.bip32_derivation
                   /\ input.bip32_derivation[to_public_key(pk)]
                          = <<master_fingerprint(pk), paths[j]>>

\* ---------------------------------------------------------------------------
\* C7
\* ---------------------------------------------------------------------------

\* The template is a script-spend template of leaf hash lh.
C7_ScriptSpendOf(t, lh) ==
    /\ ~HasKeySpendSig(t)
    /\ HasScriptSpendSig(t) \/ HasPkHashSig(t)
    /\ \A i \in 1..Len(t) :
           IsScriptSpendSig(t[i]) \/ IsPkHashSig(t[i]) => t[i].arg = lh

\* C7 as stated: after a call of a script-spend Taproot plan of leaf hash LH on
\* an Input with no tap_key_origins, every key named by a SchnorrSigPk or a
\* SchnorrSigPkHash has an entry whose leaf hashes are exactly [LH].
C7_NewKeyGetsLeafHash ==
    \A lh \in {31, 32} :
        /\ TrDone
        /\ DOMAIN pre.tap_key_origins = {}
        /\ C7_ScriptSpendOf(Template, lh)
        => \A i \in 1..Len(Template) :
               IsScriptSpendSig(Template[i]) \/ IsPkHashSig(Template[i]) =>
                   LET k == to_x_only_pubkey(Template[i].pk) IN
                   /\ k \in DOMAIN input.tap_key_origins
                   /\ input.tap_key_origins[k][1] = <<lh>>

\* ---------------------------------------------------------------------------
\* C8
\* ---------------------------------------------------------------------------

Bijections(n) == {f \in [1..n -> 1..n] : \A i, j \in 1..n : i # j => f[i] # f[j]}

TemplatePermutations(t) == {[i \in 1..Len(t) |-> t[f[i]]] : f \in Bijections(Len(t))}

\* No mix of key-spend and script-spend signature placeholders, at most one
\* TapScript and at most one TapControlBlock.
C9_WellFormed(t) ==
    /\ ~(HasKeySpendSig(t) /\ (HasScriptSpendSig(t) \/ HasPkHashSig(t)))
    /\ Cardinality(Positions(t, "TapScript")) <= 1
    /\ Cardinality(Positions(t, "TapControlBlock")) <= 1

\* The outcome of the last call.
LastOutcome == Outcome(input, status = "aborted")

\* C9 as stated: the outcome of a call of a well-formed plan is the outcome of
\* the call of any permutation of its template on the same Input.
C9_OrderIndependent ==
    status # "init" /\ C9_WellFormed(Template) =>
        \A t \in TemplatePermutations(Template) :
            Apply(Plan(plan.descriptor, t), pre) = LastOutcome

\* Well-formed, all script-spend placeholders (SchnorrSigPk and
\* SchnorrSigPkHash) carry one leaf hash, and no two SchnorrSigPk or
\* EcdsaSigPk placeholders name different keys with one x-only public key.
C9_Unambiguous(t) ==
    /\ C9_WellFormed(t)
    /\ \A i, j \in 1..Len(t) :
           /\ IsScriptSpendSig(t[i]) \/ IsPkHashSig(t[i])
           /\ IsScriptSpendSig(t[j]) \/ IsPkHashSig(t[j])
           => t[i].arg = t[j].arg
    /\ \A i, j \in 1..Len(t) :
           /\ t[i].tag \in {"SchnorrSigPk", "EcdsaSigPk"}
           /\ t[j].tag \in {"SchnorrSigPk", "EcdsaSigPk"}
           /\ to_x_only_pubkey(t[i].pk) = to_x_only_pubkey(t[j].pk)
           => t[i].pk = t[j].pk
    /\ \A i, j \in 1..Len(t) :
           IsKeySpendSig(t[i]) /\ IsKeySpendSig(t[j]) => t[i].pk = t[j].pk

\* C9 (amended): the outcome of a call of a well-formed plan whose
\* script-spend placeholders carry one leaf hash, whose key-spend placeholders
\* name one key and whose signature placeholders name no two keys with the
\* same x-only public key is the outcome of the call of any permutation of
\* its template on the same Input.
C9_OrderIndependentUnambiguous ==
    status # "init" /\ C9_Unambiguous(Template) =>
        \A t \in TemplatePermutations(Template) :
            Apply(Plan(plan.descriptor, t), pre) = LastOutcome

\* A script-spend plan of three different placeholders, one of them a
\* SchnorrSigPkHash ahead of a SchnorrSigPk, applied to a non-empty Input.
C9_Witness ==
    /\ TrDone
    /\ C9_Unambiguous(Template)
    /\ Len(Template) = 3
    /\ IsPkHashSig(Template[1])
    /\ IsScriptSpendSig(Template[2])
    /\ Template[3].tag = "TapScript"
    /\ pre # EmptyInput
    /\ input # pre

\* ---------------------------------------------------------------------------
\* C10
\* ---------------------------------------------------------------------------

\* C10: after a completed call, a second call of the same plan completes and
\* changes at most the leaf-hash lists of tap_key_origins (nothing for a
\* non-Taproot plan), and a third call completes and changes nothing.
C10_FixpointAfterTwo ==
    status = "done" =>
        LET second == Apply(plan, input)
            third == Apply(plan, second.input)
        IN /\ ~second.panicked
           /\ ~third.panicked
           /\ third.input = second.input
           /\ [second.input EXCEPT !.tap_key_origins = input.tap_key_origins] = input
           /\ DOMAIN second.input.tap_key_origins = DOMAIN input.tap_key_origins
           /\ \A k \in DOMAIN input.tap_key_origins :
                  second.input.tap_key_origins[k][2] = input.tap_key_origins[k][2]
           /\ ~IsTr(plan.descriptor) => second.input = input

\* A first call inserted a key with no leaf hash; the second call of the same
\* plan would add the leaf hash.
C10_Witness ==
    /\ TrDone
    /\ pre = EmptyInput
    /\ Template = <<SchnorrSigPkScriptSpend("K2", 32)>>
    /\ input.tap_key_origins[12][1] = << >>
    /\ Apply(plan, input).input.tap_key_origins[12][1] = <<32>>

====
